---- MODULE Spec2Model ----
(***************************************************************************)
(* The folder repository of paper-backend (src/model/folder.rs): the       *)
(* Folder entity, its two constructors, its BSON document form, and the    *)
(* five FolderRepository operations MongoClient implements over one        *)
(* collection.                                                             *)
(*                                                                         *)
(* Four specifications share the definitions:                              *)
(*   Spec      the four operations that are one driver call each, one      *)
(*             call at a time                                              *)
(*   SpecList  get_folders_by_user_id, which awaits twice: its find and    *)
(*             each getMore are steps, and create_index and the writes of  *)
(*             other handlers are executed between them                    *)
(*   SpecConc  two request handlers whose single-call operations overlap:  *)
(*             a call is issued, then executed by the backend              *)
(*   SpecNew   the constructors default_system_folder / new_from_request   *)
(***************************************************************************)
EXTENDS Integers, Sequences, FiniteSets, TLC

\* ---------------------------------------------------------------- bounds
\* Cap on the number of documents in the collection.  With unique _id it is
\* never reached (there are fewer ids than MaxDocs); it only stops a faulty
\* insert from growing the collection without end.
MaxDocs == 3
\* Largest clock reading bson::DateTime::now() returns in SpecNew.
MaxTime == 2
\* Documents per cursor batch.  The server's default first batch (101) is
\* larger than any collection modelled here; 1 makes a result of one document
\* take a second round trip, as a long result does.
BatchSize == 1
\* Cap on the number of folders a list call collects.  A cursor that walks
\* the index can be handed documents without end while other handlers keep
\* deleting and re-creating them ahead of it.
MaxResult == 3

\* ------------------------------------------------------------ Rust values
\* Option<T>
None == <<>>
Some(x) == <<x>>
\* Result<T, E>; () is Unit
Unit == <<>>
Ok(v) == <<"Ok", v>>
Err(e) == <<"Err", e>>
IsOk(r) == r[1] = "Ok"
IsErr(r) == r[1] = "Err"

\* enum FolderType and its serde names
FolderType == {"SystemDefined", "UserDefined"}

\* The ids uuid::Uuid::new_v4().to_string() can return (a small pool standing
\* for the 122-bit space), and the ids the repository is called with.
Uuids == {"f1", "f2", "f3"}
Ids == {"f1", "f2"}
UserIds == {"u1", "u2"}
DefaultName == "默认"
DefaultDescription == "System-defined folder."

\* struct Folder
Folder(id, parent_id, user_id, created_at, updated_at, name, description, type) ==
    [id |-> id, parent_id |-> parent_id, user_id |-> user_id,
     created_at |-> created_at, updated_at |-> updated_at,
     name |-> name, description |-> description, type |-> type]

\* struct schema::CreateFolderRequest
CreateFolderRequest(parent_id, name, description) ==
    [parent_id |-> parent_id, name |-> name, description |-> description]

\* Folder::default_system_folder; uuid is what Uuid::new_v4() returned, now1
\* and now2 what the two bson::DateTime::now() calls returned.
BadDefaultSystemFolder(user_id, uuid, now1, now2) ==
    Folder(user_id, None, user_id, now1, now2,
           DefaultName, Some(DefaultDescription), "SystemDefined")

default_system_folder(user_id, uuid, now1, now2) ==
    Folder(uuid, None, user_id, now1, now2,
           DefaultName, Some(DefaultDescription), "SystemDefined")

\* Folder::new_from_request
new_from_request(user_id, request, uuid, now1, now2) ==
    Folder(uuid, request.parent_id, user_id, now1, now2,
           request.name, request.description, "UserDefined")

\* ------------------------------------------------------------------ BSON
BsonNull == <<"null">>
BsonString(s) == <<"string", s>>
BsonDateTime(ms) == <<"datetime", ms>>

\* #[serde(rename = "system")] / #[serde(rename = "user")]
FolderTypeName(t) == IF t = "SystemDefined" THEN "system" ELSE "user"
\* Deserialize accepts the two names only: anything else is an error
\* (unknown variant).
FolderTypeOfName(s) ==
    IF s = "system" THEN Ok("SystemDefined")
    ELSE IF s = "user" THEN Ok("UserDefined")
    ELSE Err("Deserialize")

\* Option<String> <-> Bson
OptionToBson(o) == IF o = None THEN BsonNull ELSE BsonString(o[1])
OptionOfBson(b) ==
    IF b[1] = "null" THEN Ok(None)
    ELSE IF b[1] = "string" THEN Ok(Some(b[2]))
    ELSE Err("Deserialize")

DocKeys == {"_id", "parent_id", "user_id", "created_at", "updated_at",
            "name", "description", "type"}

\* #[derive(Serialize)] for Folder, id renamed to _id: the value written for
\* each key.  An Option that is None is written as null.
FieldToBson(f, k) ==
    CASE k = "_id"         -> BsonString(f.id)
      [] k = "parent_id"   -> OptionToBson(f.parent_id)
      [] k = "user_id"     -> BsonString(f.user_id)
      [] k = "created_at"  -> BsonDateTime(f.created_at)
      [] k = "updated_at"  -> BsonDateTime(f.updated_at)
      [] k = "name"        -> BsonString(f.name)
      [] k = "description" -> OptionToBson(f.description)
      [] k = "type"        -> BsonString(FolderTypeName(f.type))

\* (as if the Option fields carried skip_serializing_if = "Option::is_none")
ToBsonSkipNone(f) ==
    [k \in {x \in DocKeys : FieldToBson(f, x) # BsonNull} |-> FieldToBson(f, k)]

\* bson::to_bson(&folder): every field is written
to_bson(f) == [k \in DocKeys |-> FieldToBson(f, k)]

\* #[derive(Deserialize)] for Folder: what the typed collection hands back,
\* or an error.  A required field that is missing or of another type is an
\* error; an Option field that is null or missing is None; keys the struct
\* does not name are ignored.
StringField(d, k) ==
    IF k \in DOMAIN d /\ d[k][1] = "string" THEN Ok(d[k][2]) ELSE Err("Deserialize")
DateTimeField(d, k) ==
    IF k \in DOMAIN d /\ d[k][1] = "datetime" THEN Ok(d[k][2]) ELSE Err("Deserialize")
OptionField(d, k) == IF k \in DOMAIN d THEN OptionOfBson(d[k]) ELSE Ok(None)
FolderTypeField(d) ==
    IF IsErr(StringField(d, "type")) THEN Err("Deserialize")
    ELSE FolderTypeOfName(StringField(d, "type")[2])

from_bson(d) ==
    LET p == <<StringField(d, "_id"), OptionField(d, "parent_id"),
               StringField(d, "user_id"), DateTimeField(d, "created_at"),
               DateTimeField(d, "updated_at"), StringField(d, "name"),
               OptionField(d, "description"), FolderTypeField(d)>>
    IN  IF \E i \in 1..Len(p) : IsErr(p[i])
        THEN Err("Deserialize")
        ELSE Ok(Folder(p[1][2], p[2][2], p[3][2], p[4][2], p[5][2], p[6][2],
                       p[7][2], p[8][2]))

\* doc! { key: value }
Doc1(k, v) == [x \in {k} |-> v]

\* model::constant::SET_OP
SET_OP == "$set"


\* --------------------------------------------------- the MongoDB collection
\* A collection is the sequence of its documents in natural order.
\* A filter document matches a document that has equal values at its keys.
Matches(d, filter) == \A k \in DOMAIN filter : k \in DOMAIN d /\ d[k] = filter[k]
MatchIdx(coll, filter) == {i \in 1..Len(coll) : Matches(coll[i], filter)}
Min(S) == CHOOSE i \in S : \A j \in S : i <= j
RemoveAt(coll, i) == [j \in 1..(Len(coll) - 1) |-> IF j < i THEN coll[j] ELSE coll[j + 1]]

\* Collection::insert_one: the unique index on _id rejects a second document
\* with the same _id (duplicate key error).
insert_one(coll, d) ==
    IF MatchIdx(coll, Doc1("_id", d["_id"])) # {}
    THEN [coll |-> coll, res |-> Err("DuplicateKey")]
    ELSE [coll |-> Append(coll, d), res |-> Ok(d["_id"])]

\* Collection::find_one: the first match, deserialized, or None; a match
\* that does not deserialize is an error.
find_one(coll, filter) ==
    IF MatchIdx(coll, filter) = {}
    THEN Ok(None)
    ELSE LET f == from_bson(coll[Min(MatchIdx(coll, filter))])
         IN  IF IsErr(f) THEN f ELSE Ok(Some(f[2]))

\* Collection::create_index: the set of the collection's secondary indexes
\* (each named by its keys) gains the index; building it again changes
\* nothing.
create_index_on(indexes, keys) == indexes \cup {keys}

\* Collection::find and the cursor.  The find names no sort, hint, session
\* or read concern, so the server walks its plan: the index whose first key
\* the filter names, when the collection has it, else the collection in
\* natural order.
Plan(indexes, filter) ==
    IF \E keys \in indexes : keys[1] \in DOMAIN filter THEN "IXSCAN" ELSE "COLLSCAN"

\* Order of the names used here under the server's simple binary comparison
\* of the UTF-8 bytes: "Notes" (0x4E ..) sorts before "默认" (0xE9 ..).
NameRank(s) == IF s = "Notes" THEN 1 ELSE 2

\* The key the plan visits document i at.  A document's record id is its
\* rank in the collection (documents are kept in insertion order and an
\* update rewrites a document in place); an entry of the index
\* {user_id, name} is ordered, within one user_id, by name and then by
\* record id.
ScanKey(coll, i, plan) ==
    IF plan = "IXSCAN" THEN <<NameRank(coll[i]["name"][2]), i>> ELSE <<0, i>>
ScanStart == <<0, 0>>
After(pos, key) == key[1] > pos[1] \/ (key[1] = pos[1] /\ key[2] > pos[2])

\* The matching documents the plan has still to visit from position pos,
\* and the one it visits next.
Ahead(coll, filter, plan, pos) ==
    {i \in MatchIdx(coll, filter) : After(pos, ScanKey(coll, i, plan))}
NextAhead(coll, filter, plan, pos) ==
    CHOOSE i \in Ahead(coll, filter, plan, pos) :
        \A j \in Ahead(coll, filter, plan, pos) :
            i = j \/ After(ScanKey(coll, i, plan), ScanKey(coll, j, plan))

RECURSIVE Scan(_, _, _, _, _)
Scan(coll, filter, plan, pos, size) ==
    IF size = 0 \/ Ahead(coll, filter, plan, pos) = {}
    THEN <<>>
    ELSE LET i == NextAhead(coll, filter, plan, pos)
         IN  <<i>> \o Scan(coll, filter, plan, ScanKey(coll, i, plan), size - 1)

DocsAt(coll, pick) == [k \in 1..Len(pick) |-> coll[pick[k]]]

\* One batch, the reply to a find or a getMore: the next documents of the
\* plan as the collection is now, the position after them, and whether the
\* cursor stays open.  The server closes the cursor when the plan ends
\* before the batch is full; a full batch leaves it open.
Batch(coll, filter, plan, pos, size) ==
    LET pick == Scan(coll, filter, plan, pos, size)
    IN  [docs |-> DocsAt(coll, pick),
         pos |-> IF pick = <<>> THEN pos ELSE ScanKey(coll, pick[Len(pick)], plan),
         open |-> Len(pick) = size]

find(coll, filter, plan) == Batch(coll, filter, plan, ScanStart, BatchSize)
get_more(coll, filter, plan, pos) == Batch(coll, filter, plan, pos, BatchSize)

\* Cursor<Folder> as a stream: each document of a batch is deserialized as
\* it is yielded, in order.
RECURSIVE Deserialized(_)
Deserialized(docs) ==
    IF docs = <<>> THEN Ok(<<>>)
    ELSE IF IsErr(from_bson(Head(docs))) THEN from_bson(Head(docs))
    ELSE LET rest == Deserialized(Tail(docs))
         IN  IF IsErr(rest) THEN rest ELSE Ok(<<from_bson(Head(docs))[2]>> \o rest[2])

\* The $set operator: every field of the operand is written into the
\* document, a null value included; the other fields are kept.
ApplySet(d, fields) ==
    [k \in DOMAIN d \cup DOMAIN fields |->
        IF k \in DOMAIN fields THEN fields[k] ELSE d[k]]

\* Collection::update_one: applies the update to the first match; matching
\* nothing is a success with matched_count 0 (no upsert option is given).
update_one(coll, filter, update) ==
    IF MatchIdx(coll, filter) = {}
    THEN [coll |-> coll, res |-> Ok(0)]
    ELSE LET i == Min(MatchIdx(coll, filter))
         IN  [coll |-> [coll EXCEPT ![i] = ApplySet(coll[i], update[SET_OP])],
              res |-> Ok(1)]

\* Collection::delete_one: removes the first match; matching nothing is a
\* success with deleted_count 0.
delete_one(coll, filter) ==
    IF MatchIdx(coll, filter) = {}
    THEN [coll |-> coll, res |-> Ok(0)]
    ELSE [coll |-> RemoveAt(coll, Min(MatchIdx(coll, filter))), res |-> Ok(1)]

\* ------------------------------------- impl FolderRepository for MongoClient
\* Each operation takes the collection and returns the collection after the
\* call and the value the call returns.  up says whether the driver reaches
\* the backend; when it does not, the driver call fails, nothing is written,
\* and `?` returns the error.
Unreachable(coll) == [coll |-> coll, ret |-> Err("Unreachable")]

\* (as if the insert were a replace with upsert)
CreateFolderOverwrite(coll, folder, up) ==
    IF ~up THEN Unreachable(coll)
    ELSE LET r == delete_one(coll, Doc1("_id", BsonString(folder.id)))
         IN  [coll |-> Append(r.coll, to_bson(folder)), ret |-> Ok(Unit)]

create_folder(coll, folder, up) ==
    IF ~up THEN Unreachable(coll)
    ELSE LET r == insert_one(coll, to_bson(folder))
         IN  [coll |-> r.coll, ret |-> IF IsErr(r.res) THEN r.res ELSE Ok(Unit)]

\* (as if the filter named the Rust field, id, not the document key, _id)
GetFolderByIdRustKey(coll, id, up) ==
    IF ~up THEN Unreachable(coll)
    ELSE [coll |-> coll, ret |-> find_one(coll, Doc1("id", BsonString(id)))]

get_folder_by_id(coll, id, up) ==
    IF ~up THEN Unreachable(coll)
    ELSE [coll |-> coll, ret |-> find_one(coll, Doc1("_id", BsonString(id)))]

\* create_index: the index over (user_id, name)
FolderIndex == <<"user_id", "name">>

create_index(indexes, up) ==
    IF ~up THEN [indexes |-> indexes, ret |-> Err("Unreachable")]
    ELSE [indexes |-> create_index_on(indexes, FolderIndex), ret |-> Ok(Unit)]

\* get_folders_by_user_id awaits twice: the find, then try_collect, which
\* awaits a getMore whenever the batch it holds is used up and the cursor is
\* open.  A segment of the call, from one await to the next, either returns
\* or leaves the call waiting on its cursor: the filter and plan of the
\* find, the position the server has reached, and the folders collected.
UserFilter(user_id) == Doc1("user_id", BsonString(user_id))
Returned(r) == [done |-> TRUE, ret |-> r]
Waiting(filter, plan, pos, got) ==
    [done |-> FALSE,
     cursor |-> [filter |-> filter, plan |-> plan, pos |-> pos, got |-> got]]

\* (as if the first batch were taken for the whole result)
PolledFirstBatch(filter, plan, got, b) ==
    LET r == Deserialized(b.docs)
    IN  IF IsErr(r) THEN Returned(r) ELSE Returned(Ok(got \o r[2]))

\* try_collect polling the stream over a batch b that has arrived: the first
\* document that does not deserialize ends the call with the error (no
\* further getMore is sent); else an open cursor asks for more, and a closed
\* one ends the stream and the call returns the Vec.
Polled(filter, plan, got, b) ==
    LET r == Deserialized(b.docs)
    IN  IF IsErr(r) THEN Returned(r)
        ELSE IF b.open THEN Waiting(filter, plan, b.pos, got \o r[2])
        ELSE Returned(Ok(got \o r[2]))

\* The call up to its second await: the filter, the find, and the first
\* batch polled.
get_folders_by_user_id(coll, indexes, user_id, up) ==
    IF ~up THEN Returned(Err("Unreachable"))
    ELSE LET filter == UserFilter(user_id)
             plan == Plan(indexes, filter)
         IN  Polled(filter, plan, <<>>, find(coll, filter, plan))

\* The call from a getMore to the next await or to its return.
try_collect(coll, c, up) ==
    IF ~up THEN Returned(Err("Unreachable"))
    ELSE Polled(c.filter, c.plan, c.got, get_more(coll, c.filter, c.plan, c.pos))

\* (as if update_one were given upsert(true))
UpdateFolderUpsert(coll, folder, up) ==
    IF ~up THEN Unreachable(coll)
    ELSE LET filter == Doc1("_id", BsonString(folder.id))
             r == update_one(coll, filter, Doc1(SET_OP, to_bson(folder)))
         IN  [coll |-> IF r.res = Ok(0) THEN Append(coll, to_bson(folder)) ELSE r.coll,
              ret |-> Ok(folder)]

\* (as if only the fields that are set were sent: a partial patch)
UpdateFolderPatch(coll, folder, up) ==
    IF ~up THEN Unreachable(coll)
    ELSE LET filter == Doc1("_id", BsonString(folder.id))
             r == update_one(coll, filter, Doc1(SET_OP, ToBsonSkipNone(folder)))
         IN  [coll |-> r.coll, ret |-> Ok(folder)]

update_folder(coll, folder, up) ==
    IF ~up THEN Unreachable(coll)
    ELSE LET filter == Doc1("_id", BsonString(folder.id))
             update == Doc1(SET_OP, to_bson(folder))
             r == update_one(coll, filter, update)
         IN  [coll |-> r.coll, ret |-> IF IsErr(r.res) THEN r.res ELSE Ok(folder)]

\* (as if deleting nothing were reported as an error)
DeleteFolderStrict(coll, id, up) ==
    IF ~up THEN Unreachable(coll)
    ELSE LET r == delete_one(coll, Doc1("_id", BsonString(id)))
         IN  [coll |-> r.coll, ret |-> IF r.res = Ok(0) THEN Err("NotFound") ELSE Ok(Unit)]

\* (as if the children of the folder were deleted with it)
DeleteFolderCascade(coll, id, up) ==
    IF ~up THEN Unreachable(coll)
    ELSE LET Keep(d) == d["_id"] # BsonString(id) /\ d["parent_id"] # BsonString(id)
         IN  [coll |-> SelectSeq(coll, Keep), ret |-> Ok(Unit)]

delete_folder(coll, id, up) ==
    IF ~up THEN Unreachable(coll)
    ELSE LET r == delete_one(coll, Doc1("_id", BsonString(id)))
         IN  [coll |-> r.coll, ret |-> IF IsErr(r.res) THEN r.res ELSE Ok(Unit)]

\* ------------------------------------------------------ the folders called with
\* The repository takes any Folder.  The calls are made with the default
\* folder of u1, every folder that differs from it in one field, and the
\* user folder "Notes" of u1 under f1, each under every id.
Times == {1, 2}
AllFolders ==
    {Folder(i, p, u, c, m, n, d, t) :
        i \in Ids, p \in {None, Some("f1")}, u \in UserIds, c \in Times, m \in Times,
        n \in {DefaultName, "Notes"}, d \in {None, Some(DefaultDescription)},
        t \in FolderType}
DefaultOf(id) == default_system_folder("u1", id, 1, 1)
NotesOf(id) == new_from_request("u1", CreateFolderRequest(Some("f1"), "Notes", None), id, 1, 2)
Distance(f, g) == Cardinality({k \in DOMAIN f : f[k] # g[k]})
Folders == {f \in AllFolders : Distance(f, DefaultOf(f.id)) <= 1 \/ f = NotesOf(f.id)}
\* SpecList: the default folder of u1, of u2, and "Notes" of u1, under every id.
ListFolders ==
    {f \in Folders : f \in {DefaultOf(f.id), NotesOf(f.id),
                             default_system_folder("u2", f.id, 1, 1)}}

\* ------------------------------------------------------------------ state
VARIABLES
    store,   \* the folder collection: the sequence of its documents
    indexes, \* the secondary indexes of the collection, each named by its keys
    last,    \* the repository call that has just returned: its input and result
    hist,    \* per id, the last successful write ("create" or "update", with
             \*   the folder written) since the id was last deleted
    cursor,  \* SpecList: the list call in progress, waiting on its cursor
             \*   (None when there is none), and whether the collection has
             \*   changed since its find
    pc,      \* SpecConc: per handler, "idle", "pending" or "done"
    req,     \* SpecConc: per handler, the call it makes
    ret,     \* SpecConc: per handler, what its call returned
    hit,     \* SpecConc: per handler, whether its call found its document
    conc,    \* SpecConc: per handler, whether its call overlapped another's
    issued,  \* SpecNew: the ids Uuid::new_v4 has returned
    built,   \* SpecNew: the ids of the folders the constructors have returned
    made     \* SpecNew: the constructor call just made and the folder it built

vars == <<store, indexes, last, hist, cursor, pc, req, ret, hit, conc, issued, built, made>>
repoVars == <<store, last, hist>>
listVars == <<indexes, cursor>>
concVars == <<pc, req, ret, hit, conc>>
newVars == <<issued, built, made>>

Handlers == {"h1", "h2"}

\* The record of a call: the operation, its argument, whether every round
\* trip reached the backend, whether a document with the id was stored when
\* it was made, the optional fields that had a value and that the call's
\* folder sets to None, whether the collection changed between the call's
\* first round trip and its return, and what the call returned.
Call(op, arg, up, existed, cleared, moved, r) ==
    [op |-> op, arg |-> arg, up |-> up, existed |-> existed,
     cleared |-> cleared, moved |-> moved, ret |-> r]

NoCall == Call("none", None, TRUE, FALSE, {}, FALSE, Ok(Unit))

Cleared(h, folder) ==
    IF h = None THEN {}
    ELSE {k \in {"parent_id", "description"} : h[2][k] # None /\ folder[k] = None}

\* What a write that another handler's call makes does to the list call in
\* progress: the collection has changed under its cursor, and when a
\* document at or before the cursor's record id is removed, the rank that
\* stands for that record id falls by one with the ranks of the documents
\* behind it.
Disturbed(c, coll, after, id) ==
    IF c = None \/ after = coll THEN c
    ELSE LET k == c.pos[2]
             gone == Len(after) < Len(coll)
                        /\ Min(MatchIdx(coll, Doc1("_id", BsonString(id)))) <= k
         IN  [c EXCEPT !.pos = <<c.pos[1], IF gone THEN k - 1 ELSE k>>,
                       !.moved = TRUE]

Init ==
    /\ store = <<>>
    /\ indexes = {}
    /\ last = NoCall
    /\ hist = [i \in Ids |-> None]
    /\ cursor = None
    /\ pc = [h \in Handlers |-> "idle"]
    /\ req = [h \in Handlers |-> None]
    /\ ret = [h \in Handlers |-> None]
    /\ hit = [h \in Handlers |-> FALSE]
    /\ conc = [h \in Handlers |-> FALSE]
    /\ issued = {}
    /\ built = {}
    /\ made = None

\* --------------------------------- Spec: the single-call operations in turn
\* Each of these operations awaits one driver call, which the backend
\* executes as one step.  Created, Updated and Deleted are what the step does
\* to the collection, given the result r of the operation.
Created(folder, r) ==
    /\ Len(store) < MaxDocs
    /\ store' = r.coll
    /\ hist' = IF IsOk(r.ret)
               THEN [hist EXCEPT ![folder.id] = <<"create", folder>>]
               ELSE hist
    /\ cursor' = Disturbed(cursor, store, r.coll, folder.id)
    /\ UNCHANGED <<indexes, concVars, newVars>>

Updated(folder, r) ==
    /\ Len(store) < MaxDocs
    /\ store' = r.coll
    /\ hist' = IF IsOk(r.ret) /\ hist[folder.id] # None
               THEN [hist EXCEPT ![folder.id] = <<"update", folder>>]
               ELSE hist
    /\ cursor' = Disturbed(cursor, store, r.coll, folder.id)
    /\ UNCHANGED <<indexes, concVars, newVars>>

Deleted(id, r) ==
    /\ store' = r.coll
    /\ hist' = IF IsOk(r.ret) THEN [hist EXCEPT ![id] = None] ELSE hist
    /\ cursor' = Disturbed(cursor, store, r.coll, id)
    /\ UNCHANGED <<indexes, concVars, newVars>>

CreateFolder(folder, up) ==
    LET r == create_folder(store, folder, up)
    IN  /\ Created(folder, r)
        /\ last' = Call("create_folder", folder, up, hist[folder.id] # None, {},
                      FALSE, r.ret)

GetFolderById(id, up) ==
    LET r == get_folder_by_id(store, id, up)
    IN  /\ store' = r.coll
        /\ last' = Call("get_folder_by_id", id, up, hist[id] # None, {}, FALSE, r.ret)
        /\ UNCHANGED <<hist, listVars, concVars, newVars>>

UpdateFolder(folder, up) ==
    LET r == update_folder(store, folder, up)
    IN  /\ Updated(folder, r)
        /\ last' = Call("update_folder", folder, up, hist[folder.id] # None,
                      Cleared(hist[folder.id], folder), FALSE, r.ret)

DeleteFolder(id, up) ==
    LET r == delete_folder(store, id, up)
    IN  /\ Deleted(id, r)
        /\ last' = Call("delete_folder", id, up, hist[id] # None, {}, FALSE, r.ret)

Next ==
    \/ \E f \in Folders, up \in BOOLEAN : CreateFolder(f, up)
    \/ \E id \in Ids, up \in BOOLEAN : GetFolderById(id, up)
    \/ \E f \in Folders, up \in BOOLEAN : UpdateFolder(f, up)
    \/ \E id \in Ids, up \in BOOLEAN : DeleteFolder(id, up)

Spec == Init /\ [][Next]_vars

\* ------------------------------- SpecList: a list call among other calls
\* One handler lists, and last is its call when it has just returned.
\* create_index and the writes of other handlers are executed before,
\* between and after the round trips of its call.
CreateIndex(up) ==
    /\ indexes' = create_index(indexes, up).indexes
    /\ last' = NoCall
    /\ UNCHANGED <<store, hist, cursor, concVars, newVars>>

OtherCreateFolder(folder, up) ==
    Created(folder, create_folder(store, folder, up)) /\ last' = NoCall

OtherUpdateFolder(folder, up) ==
    Updated(folder, update_folder(store, folder, up)) /\ last' = NoCall

OtherDeleteFolder(id, up) ==
    Deleted(id, delete_folder(store, id, up)) /\ last' = NoCall

\* A segment of the list call has run: the call returns, or waits on its
\* cursor.
Polling(user_id, up, moved, r) ==
    /\ IF r.done
       THEN /\ last' = Call("get_folders_by_user_id", user_id, up, FALSE, {},
                             moved, r.ret)
            /\ cursor' = None
       ELSE /\ Len(r.cursor.got) <= MaxResult
            /\ last' = NoCall
            /\ cursor' = [user_id |-> user_id, moved |-> moved,
                          filter |-> r.cursor.filter, plan |-> r.cursor.plan,
                          pos |-> r.cursor.pos, got |-> r.cursor.got]
    /\ UNCHANGED <<store, indexes, hist, concVars, newVars>>

GetFoldersByUserId(user_id, up) ==
    /\ cursor = None
    /\ Polling(user_id, up, FALSE, get_folders_by_user_id(store, indexes, user_id, up))

TryCollect(up) ==
    /\ cursor # None
    /\ Polling(cursor.user_id, up, cursor.moved, try_collect(store, cursor, up))

NextList ==
    \/ \E up \in BOOLEAN : CreateIndex(up)
    \/ \E u \in UserIds, up \in BOOLEAN : GetFoldersByUserId(u, up)
    \/ \E up \in BOOLEAN : TryCollect(up)
    \/ \E f \in ListFolders, up \in BOOLEAN : OtherCreateFolder(f, up)
    \/ \E f \in ListFolders, up \in BOOLEAN : OtherUpdateFolder(f, up)
    \/ \E id \in Ids, up \in BOOLEAN : OtherDeleteFolder(id, up)

SpecList == Init /\ [][NextList]_vars

\* ------------------------------------------ SpecConc: two request handlers
\* A handler issues a call of a single-call operation (the async fn starts
\* and builds its filter), the backend then executes the driver call as a
\* single step, and the handler has its result.  Calls that are in flight
\* together are executed in either order.
ConcFolders ==
    {f \in Folders : f = DefaultOf(f.id) \/ f = NotesOf(f.id)}
Requests ==
    {[op |-> o, arg |-> f] : o \in {"create_folder", "update_folder"}, f \in ConcFolders}
    \cup {[op |-> o, arg |-> i] : o \in {"get_folder_by_id", "delete_folder"}, i \in Ids}
IdOf(rq) == IF rq.op \in {"create_folder", "update_folder"} THEN rq.arg.id ELSE rq.arg
Stored(coll, id) == MatchIdx(coll, Doc1("_id", BsonString(id))) # {}

Issue(h, rq) ==
    /\ pc[h] \in {"idle", "done"}
    /\ pc' = [pc EXCEPT ![h] = "pending"]
    /\ req' = [req EXCEPT ![h] = rq]
    /\ ret' = [ret EXCEPT ![h] = None]
    /\ hit' = [hit EXCEPT ![h] = FALSE]
    /\ conc' = [g \in Handlers |->
                  IF \E o \in Handlers \ {h} : pc[o] = "pending"
                  THEN (g = h \/ pc[g] = "pending" \/ conc[g])
                  ELSE (g # h /\ conc[g])]
    /\ UNCHANGED <<repoVars, listVars, newVars>>

Finish(h, up, r) ==
    /\ store' = r.coll
    /\ pc' = [pc EXCEPT ![h] = "done"]
    /\ ret' = [ret EXCEPT ![h] = r.ret]
    /\ hit' = [hit EXCEPT ![h] = up /\ Stored(store, IdOf(req[h]))]
    /\ UNCHANGED <<req, conc, last, hist, listVars, newVars>>

ExecCreateFolder(h, up) ==
    /\ pc[h] = "pending" /\ req[h].op = "create_folder"
    /\ Len(store) < MaxDocs
    /\ Finish(h, up, create_folder(store, req[h].arg, up))

ExecGetFolderById(h, up) ==
    /\ pc[h] = "pending" /\ req[h].op = "get_folder_by_id"
    /\ Finish(h, up, get_folder_by_id(store, req[h].arg, up))

ExecUpdateFolder(h, up) ==
    /\ pc[h] = "pending" /\ req[h].op = "update_folder"
    /\ Len(store) < MaxDocs
    /\ Finish(h, up, update_folder(store, req[h].arg, up))

ExecDeleteFolder(h, up) ==
    /\ pc[h] = "pending" /\ req[h].op = "delete_folder"
    /\ Finish(h, up, delete_folder(store, req[h].arg, up))

NextConc ==
    \/ \E h \in Handlers, rq \in Requests : Issue(h, rq)
    \/ \E h \in Handlers, up \in BOOLEAN : ExecCreateFolder(h, up)
    \/ \E h \in Handlers, up \in BOOLEAN : ExecGetFolderById(h, up)
    \/ \E h \in Handlers, up \in BOOLEAN : ExecUpdateFolder(h, up)
    \/ \E h \in Handlers, up \in BOOLEAN : ExecDeleteFolder(h, up)

SpecConc == Init /\ [][NextConc]_vars

\* ------------------------------------------------ SpecNew: the constructors
\* Uuid::new_v4 draws 122 random bits; a repeated draw is taken not to
\* happen, so the draw is any id not drawn before.  bson::DateTime::now()
\* reads the wall clock: any reading.
NewRequests ==
    {CreateFolderRequest(p, n, d) :
        p \in {None, Some("f1")}, n \in {DefaultName, "Notes"}, d \in {None, Some("d")}}

Built(ctor, user_id, request, folder) ==
    /\ made' = [ctor |-> ctor, user_id |-> user_id, request |-> request,
                earlier |-> built, folder |-> folder]
    /\ built' = built \cup {folder.id}
    /\ UNCHANGED <<repoVars, listVars, concVars>>

DefaultSystemFolder(user_id) ==
    \E uuid \in Uuids \ issued, now1 \in 1..MaxTime, now2 \in 1..MaxTime :
        /\ issued' = issued \cup {uuid}
        /\ Built("default_system_folder", user_id, None,
                 default_system_folder(user_id, uuid, now1, now2))

NewFromRequest(user_id, request) ==
    \E uuid \in Uuids \ issued, now1 \in 1..MaxTime, now2 \in 1..MaxTime :
        /\ issued' = issued \cup {uuid}
        /\ Built("new_from_request", user_id, Some(request),
                 new_from_request(user_id, request, uuid, now1, now2))

NextNew ==
    \/ \E u \in UserIds : DefaultSystemFolder(u)
    \/ \E u \in UserIds, rq \in NewRequests : NewFromRequest(u, rq)

SpecNew == Init /\ [][NextNew]_vars

\* ----------------------------------------------------------------- claims
DocOf(coll, id) == coll[Min(MatchIdx(coll, Doc1("_id", BsonString(id))))]
Written(id) == hist[id][2]
LastWrite(id) == IF hist[id] = None THEN "none" ELSE hist[id][1]
Elems(seq) == {seq[k] : k \in 1..Len(seq)}
GetNow(id) == get_folder_by_id(store, id, TRUE).ret

(* C1: after create_folder(F) has succeeded, and while no update or delete
   of F.id has followed it, a get_folder_by_id(F.id) that reaches the
   backend returns Some(F), equal to F in every field. *)
C1_CreateThenGet ==
    (last.op = "get_folder_by_id" /\ last.up /\ LastWrite(last.arg) = "create")
        => last.ret = Ok(Some(Written(last.arg)))

C1_Witness ==
    /\ last.op = "get_folder_by_id" /\ last.up
    /\ LastWrite(last.arg) = "create"
    /\ Written(last.arg) = NotesOf("f2")
    /\ last.ret = Ok(Some(NotesOf("f2")))
    /\ Len(store) = 2

(* C2: a get_folders_by_user_id(U) that reaches the backend returns Ok and
   no folder of another user; and when no write changes the collection while
   the call is in progress, it returns exactly the folders now stored whose
   user_id is U, each once, whatever the order the writes were made in and
   whichever plan the server walks: none missing, and the empty list when U
   owns none. *)
Owned(user_id) ==
    {Written(i) : i \in {j \in Ids : hist[j] # None /\ Written(j).user_id = user_id}}

C2_ByUserExact ==
    (last.op = "get_folders_by_user_id" /\ last.up) =>
        /\ IsOk(last.ret)
        /\ \A f \in Elems(last.ret[2]) : f.user_id = last.arg
        /\ ~last.moved =>
              /\ Elems(last.ret[2]) = Owned(last.arg)
              /\ Len(last.ret[2]) = Cardinality(Owned(last.arg))

C2_Witness ==
    /\ last.op = "get_folders_by_user_id" /\ last.up /\ ~last.moved
    /\ last.arg = "u1"
    /\ FolderIndex \in indexes
    /\ store = <<to_bson(DefaultOf("f2")), to_bson(NotesOf("f1"))>>
    /\ LastWrite("f1") = "update"
    /\ last.ret = Ok(<<NotesOf("f1"), DefaultOf("f2")>>)

(* C3: update_folder(F') on an id that is stored returns F' and replaces the
   whole document: a get_folder_by_id(F'.id) after it returns Some(F'), also
   where F' sets parent_id or description to None and the document had a
   value there. *)
C3_UpdateReplaces ==
    /\ (last.op = "update_folder" /\ last.up /\ last.existed)
           => (last.ret = Ok(last.arg) /\ GetNow(last.arg.id) = Ok(Some(last.arg)))
    /\ (last.op = "get_folder_by_id" /\ last.up /\ LastWrite(last.arg) = "update")
           => last.ret = Ok(Some(Written(last.arg)))

C3_Witness ==
    /\ last.op = "update_folder" /\ last.up /\ last.existed
    /\ last.cleared = {"parent_id", "description"}
    /\ GetNow(last.arg.id) = Ok(Some(last.arg))

(* C4: update_folder(F') on an id that is not stored returns Ok(F'), creates
   no document and leaves the collection as it was: get_folder_by_id(F'.id)
   after it still returns None. *)
C4_UpdateMissingIsNoOp ==
    /\ []((last.op = "update_folder" /\ last.up /\ ~last.existed)
             => /\ last.ret = Ok(last.arg)
                /\ ~Stored(store, last.arg.id)
                /\ GetNow(last.arg.id) = Ok(None))
    /\ [][(last'.op = "update_folder" /\ last'.up /\ ~last'.existed)
             => store' = store]_vars

C4_Witness ==
    /\ last.op = "update_folder" /\ last.up /\ ~last.existed
    /\ last.ret = Ok(last.arg)
    /\ Len(store) = 1

(* C5: get_folder_by_id(id) returns Ok(None), not an error, for an id never
   inserted or already deleted; delete_folder(id) returns Ok(()) whether or
   not the id was stored, and a get_folder_by_id(id) after it returns
   Ok(None). *)
C5_AbsentIsNotAnError ==
    /\ (last.op = "get_folder_by_id" /\ last.up /\ hist[last.arg] = None)
           => last.ret = Ok(None)
    /\ (last.op = "delete_folder" /\ last.up)
           => (last.ret = Ok(Unit) /\ GetNow(last.arg) = Ok(None))

C5_Witness ==
    /\ last.op = "delete_folder" /\ last.up /\ ~last.existed
    /\ last.ret = Ok(Unit)
    /\ Len(store) = 1

(* C6: create_folder(F) on an id that is already stored returns an error and
   leaves the collection as it was (the stored document keeps its fields);
   no two stored documents ever have the same id. *)
UniqueIds ==
    \A i, j \in 1..Len(store) : store[i]["_id"] = store[j]["_id"] => i = j

C6_DuplicateIdRejected ==
    /\ []UniqueIds
    /\ []((last.op = "create_folder" /\ last.up /\ last.existed) => IsErr(last.ret))
    /\ [][(last'.op = "create_folder" /\ last'.up /\ last'.existed)
             => store' = store]_vars

C6_Witness ==
    /\ last.op = "create_folder" /\ last.up /\ last.existed
    /\ last.ret = Err("DuplicateKey")
    /\ from_bson(DocOf(store, last.arg.id)) # Ok(last.arg)

(* C7: the user_id of a stored folder never changes: over any repository
   call, a document that is stored before and after the call has the same
   user_id. *)
C7_OwnerNeverChanges ==
    [][\A i \in Ids : (Stored(store, i) /\ Stored(store', i))
          => DocOf(store', i)["user_id"] = DocOf(store, i)["user_id"]]_vars

(* C8: delete_folder(id) removes at most the one document whose id is id and
   leaves every other document as it was, in place: a folder whose parent_id
   is the deleted id stays stored with that parent_id. *)
OthersThan(coll, id) ==
    LET Other(d) == d["_id"] # BsonString(id) IN SelectSeq(coll, Other)

C8_DeleteDoesNotCascade ==
    [][last'.op = "delete_folder"
          => /\ OthersThan(store', last'.arg) = OthersThan(store, last'.arg)
             /\ Len(store) - Len(store') \in {0, 1}]_vars

C8_Witness ==
    /\ last.op = "delete_folder" /\ last.up /\ last.existed /\ last.arg = "f1"
    /\ store = <<to_bson(NotesOf("f2"))>>
    /\ store[1]["parent_id"] = BsonString("f1")
    /\ GetNow("f2") = Ok(Some(NotesOf("f2")))

(* C9: two update_folder calls, with A and B, on the same stored id: in
   every order the backend executes them, both return Ok with their own
   value, and the document stored afterwards is exactly A or exactly B,
   never a mixture of their fields nor the earlier value. *)
C9_LastWriteWins ==
    \A a, b \in Handlers :
        (/\ a # b
         /\ pc[a] = "done" /\ pc[b] = "done"
         /\ req[a].op = "update_folder" /\ req[b].op = "update_folder"
         /\ req[a].arg.id = req[b].arg.id
         /\ hit[a] /\ hit[b])
        => /\ ret[a] = Ok(req[a].arg)
           /\ ret[b] = Ok(req[b].arg)
           /\ GetNow(req[a].arg.id) \in {Ok(Some(req[a].arg)), Ok(Some(req[b].arg))}

C9_Witness ==
    /\ pc["h1"] = "done" /\ pc["h2"] = "done"
    /\ req["h1"].op = "update_folder" /\ req["h2"].op = "update_folder"
    /\ req["h1"].arg = NotesOf("f1") /\ req["h2"].arg = DefaultOf("f1")
    /\ hit["h1"] /\ hit["h2"]
    /\ conc["h1"] /\ conc["h2"]
    /\ GetNow("f1") = Ok(Some(NotesOf("f1")))

(* C10: default_system_folder(user_id) returns a folder of type
   SystemDefined, with parent_id None, the given user_id, and an id that no
   folder built by an earlier constructor call has (also for the same
   user_id); new_from_request returns type UserDefined for every request. *)
C10_Constructors ==
    made # None =>
        /\ made.ctor = "default_system_folder"
              => /\ made.folder.type = "SystemDefined"
                 /\ made.folder.parent_id = None
                 /\ made.folder.user_id = made.user_id
                 /\ made.folder.id \notin made.earlier
        /\ made.ctor = "new_from_request" => made.folder.type = "UserDefined"

C10_Witness ==
    /\ made # None
    /\ made.ctor = "default_system_folder" /\ made.user_id = "u1"
    /\ Cardinality(made.earlier) = 2
    /\ made.folder.type = "SystemDefined"

====
